---- MODULE Spec2Model ----
(***************************************************************************)
(* Model of the signup form of swaraj89/acmeapp                            *)
(* (src/src/components/SignupForm.tsx): the form's state (formData,        *)
(* errors), the derived password criteria, the change and submit handlers  *)
(* and the route the form navigates to.                                    *)
(*                                                                         *)
(* A JavaScript string is a sequence of one-character strings, so that     *)
(* length, trim and the regular expressions are computed and not assumed.  *)
(***************************************************************************)
EXTENDS Integers, Sequences, FiniteSets, TLC

VARIABLES
    formData,   \* useState<FormData>: the four field values
    errors,     \* useState<Partial<FormData>>: field -> message
    view,       \* the route shown: "/signup" or "/dashboard"
    lastEvent   \* the event handled last: its type and the input it came from

vars == <<formData, errors, view, lastEvent>>

(***************************************************************************)
(* Character classes of the regular expressions.                           *)
(***************************************************************************)
\* \s : the white space a \S refuses and trim() strips (space, tab, newline)
Whitespace == {" ", "\t", "\n"}

\* [A-Z]
UpperCase ==
    {"A", "B", "C", "D", "E", "F", "G", "H", "I", "J", "K", "L", "M",
     "N", "O", "P", "Q", "R", "S", "T", "U", "V", "W", "X", "Y", "Z"}

\* \d
Digits == {"0", "1", "2", "3", "4", "5", "6", "7", "8", "9"}

\* [!@#$%^&*()_+\-=\[\]{};':"\\|,.<>\/?]
Symbols ==
    {"!", "@", "#", "$", "%", "^", "&", "*", "(", ")", "_", "+", "-", "=",
     "[", "]", "{", "}", ";", "'", ":", "\"", "\\", "|", ",", ".", "<", ">",
     "/", "?"}

(***************************************************************************)
(* A regular expression is a sequence of tokens; a token matches one       *)
(* character of a class (or of its complement), once or one-or-more times. *)
(***************************************************************************)
One(set)     == [neg |-> FALSE, set |-> set, plus |-> FALSE]
PlusNot(set) == [neg |-> TRUE,  set |-> set, plus |-> TRUE]

InClass(t, c) == IF t.neg THEN c \notin t.set ELSE c \in t.set

\* the pattern matches s from position i on, starting with its k-th token
\* (a + token tries every run length, as backtracking does)
RECURSIVE MatchFrom(_, _, _, _)
MatchFrom(pat, s, i, k) ==
    IF k > Len(pat) THEN TRUE
    ELSE LET t == pat[k] IN
         IF t.plus
         THEN \E n \in 1..(Len(s) - i + 1) :
                 /\ \A m \in i..(i + n - 1) : InClass(t, s[m])
                 /\ MatchFrom(pat, s, i + n, k + 1)
         ELSE /\ i <= Len(s)
              /\ InClass(t, s[i])
              /\ MatchFrom(pat, s, i + 1, k + 1)

\* RegExp.prototype.test without anchors: a match may start anywhere
RegexTest(pat, s) == \E i \in 1..(Len(s) + 1) : MatchFrom(pat, s, i, 1)

\* /[A-Z]/
UppercasePattern == <<One(UpperCase)>>
\* /[!@#$%^&*()_+\-=\[\]{};':"\\|,.<>\/?]/
SymbolPattern == <<One(Symbols)>>
\* /\d/
DigitPattern == <<One(Digits)>>
\* the pattern without its dot part, /\S+@\S+/
EmailPatternNoDot == <<PlusNot(Whitespace), One({"@"}), PlusNot(Whitespace)>>

\* /\S+@\S+\.\S+/
EmailPattern ==
    <<PlusNot(Whitespace), One({"@"}), PlusNot(Whitespace), One({"."}),
      PlusNot(Whitespace)>>

(***************************************************************************)
(* String.prototype.trim                                                   *)
(***************************************************************************)
RECURSIVE TrimStart(_)
TrimStart(s) ==
    IF s # <<>> /\ Head(s) \in Whitespace THEN TrimStart(Tail(s)) ELSE s

RECURSIVE TrimEnd(_)
TrimEnd(s) ==
    IF s # <<>> /\ s[Len(s)] \in Whitespace
    THEN TrimEnd(SubSeq(s, 1, Len(s) - 1))
    ELSE s

Trim(s) == TrimEnd(TrimStart(s))

(***************************************************************************)
(* The form's state.                                                       *)
(***************************************************************************)
Fields == {"email", "username", "password", "confirmPassword"}

\* a key the errors object does not have, and a key set to undefined
Absent == "<absent>"
Undefined == "<undefined>"

\* errors[name] as a condition: a message is a non-empty string
Truthy(e) == e \notin {Absent, Undefined}

\* {} : no key at all
NoErrors == [f \in Fields |-> Absent]

EmptyForm ==
    [email |-> <<>>, username |-> <<>>, password |-> <<>>,
     confirmPassword |-> <<>>]

MinLength == 8

Criteria ==
    {"minLength", "hasUppercase", "hasSymbol", "hasDigit", "notSameAsUsername"}

\* notSameAsUsername as a bare comparison
passwordCriteriaNoEmptyCheck(fd) ==
    LET password == fd.password
        username == fd.username
    IN  [minLength |-> Len(password) >= MinLength,
         hasUppercase |-> RegexTest(UppercasePattern, password),
         hasSymbol |-> RegexTest(SymbolPattern, password),
         hasDigit |-> RegexTest(DigitPattern, password),
         notSameAsUsername |-> password # username]

\* minLength measured on the username
passwordCriteriaUsernameLength(fd) ==
    LET password == fd.password
        username == fd.username
    IN  [minLength |-> Len(username) >= MinLength,
         hasUppercase |-> RegexTest(UppercasePattern, password),
         hasSymbol |-> RegexTest(SymbolPattern, password),
         hasDigit |-> RegexTest(DigitPattern, password),
         notSameAsUsername |->
             password # username /\ Len(password) > 0 /\ Len(username) > 0]

passwordCriteria(fd) ==
    LET password == fd.password
        username == fd.username
    IN  [minLength |-> Len(password) >= MinLength,
         hasUppercase |-> RegexTest(UppercasePattern, password),
         hasSymbol |-> RegexTest(SymbolPattern, password),
         hasDigit |-> RegexTest(DigitPattern, password),
         notSameAsUsername |->
             password # username /\ Len(password) > 0 /\ Len(username) > 0]

\* Object.values(passwordCriteria).every(criteria => criteria)
isPasswordValid(fd) ==
    LET pc == passwordCriteria(fd) IN \A c \in DOMAIN pc : pc[c]

\* the button without the comparison of the two passwords
submitDisabledIgnoresConfirm(fd) == ~isPasswordValid(fd)

\* the disabled attribute of the submit button
submitDisabled(fd) ==
    ~isPasswordValid(fd) \/ fd.password # fd.confirmPassword

(***************************************************************************)
(* validateForm: the newErrors object it builds.                           *)
(***************************************************************************)
emailError(fd) ==
    IF Trim(fd.email) = <<>> THEN "Email is required"
    ELSE IF ~RegexTest(EmailPattern, fd.email) THEN "Email is invalid"
    ELSE Absent

\* the username test without trim()
usernameErrorNoTrim(fd) ==
    IF fd.username = <<>> THEN "Username is required" ELSE Absent

usernameError(fd) ==
    IF Trim(fd.username) = <<>> THEN "Username is required" ELSE Absent

\* the password test without the criteria
passwordErrorRequiredOnly(fd) ==
    IF fd.password = <<>> THEN "Password is required" ELSE Absent

passwordError(fd) ==
    IF fd.password = <<>> THEN "Password is required"
    ELSE IF ~isPasswordValid(fd) THEN "Password does not meet all criteria"
    ELSE Absent

confirmPasswordError(fd) ==
    IF fd.confirmPassword = <<>> THEN "Please confirm your password"
    ELSE IF fd.password # fd.confirmPassword THEN "Passwords do not match"
    ELSE Absent

newErrors(fd) ==
    [email |-> emailError(fd), username |-> usernameError(fd),
     password |-> passwordError(fd),
     confirmPassword |-> confirmPasswordError(fd)]

\* Object.keys(newErrors).length === 0
validateForm(fd) == \A f \in Fields : newErrors(fd)[f] = Absent

(***************************************************************************)
(* The values a change event carries.                                      *)
(***************************************************************************)
sBlank    == <<" ">>
sAlice    == <<"a", "l", "i", "c", "e">>
sStrong1  == <<"A", "b", "c", "d", "e", "f", "1", "!">>
sStrong2  == <<"A", "b", "c", "d", "e", "f", "2", "!">>
sMail     == <<"a", "@", "b", ".", "c", "o", "m">>
sNoDot    == <<"a", "@", "b">>

EmailInputs    == {<<>>, sBlank, sMail, sNoDot}
UsernameInputs == {<<>>, sBlank, sAlice, sStrong1}
PasswordInputs == {<<>>, sAlice, sStrong1, sStrong2}

Inputs(name) ==
    CASE name = "email" -> EmailInputs
      [] name = "username" -> UsernameInputs
      [] OTHER -> PasswordInputs

(***************************************************************************)
(* The handlers.                                                           *)
(***************************************************************************)
Init ==
    /\ formData = EmptyForm
    /\ errors = NoErrors
    /\ view = "/signup"
    /\ lastEvent = [type |-> "mount", target |-> "form"]

\* an edit that empties the whole errors object
handleInputChangeClearsAll(name, value) ==
    /\ view = "/signup"
    /\ formData' = [formData EXCEPT ![name] = value]
    /\ errors' = IF Truthy(errors[name]) THEN NoErrors ELSE errors
    /\ lastEvent' = [type |-> "change", target |-> name]
    /\ UNCHANGED view

\* an edit that validates the edited field at once
handleInputChangeRevalidates(name, value) ==
    /\ view = "/signup"
    /\ formData' = [formData EXCEPT ![name] = value]
    /\ errors' = [errors EXCEPT ![name] = newErrors(formData')[name]]
    /\ lastEvent' = [type |-> "change", target |-> name]
    /\ UNCHANGED view

handleInputChange(name, value) ==
    /\ view = "/signup"
    /\ formData' = [formData EXCEPT ![name] = value]
    /\ errors' = IF Truthy(errors[name])
                 THEN [errors EXCEPT ![name] = Undefined]
                 ELSE errors
    /\ lastEvent' = [type |-> "change", target |-> name]
    /\ UNCHANGED view

\* a submit that navigates whatever validateForm returns
handleSubmitAlwaysNavigates ==
    /\ view = "/signup"
    /\ errors' = newErrors(formData)
    /\ view' = "/dashboard"
    /\ lastEvent' = [type |-> "submit", target |-> "form"]
    /\ UNCHANGED formData

\* a submit that merges newErrors into the previous errors
handleSubmitMergesErrors ==
    /\ view = "/signup"
    /\ errors' = [f \in Fields |->
                     IF newErrors(formData)[f] # Absent
                     THEN newErrors(formData)[f]
                     ELSE errors[f]]
    /\ view' = IF validateForm(formData) THEN "/dashboard" ELSE view
    /\ lastEvent' = [type |-> "submit", target |-> "form"]
    /\ UNCHANGED formData

handleSubmit ==
    /\ view = "/signup"
    /\ errors' = newErrors(formData)
    /\ view' = IF validateForm(formData) THEN "/dashboard" ELSE view
    /\ lastEvent' = [type |-> "submit", target |-> "form"]
    /\ UNCHANGED formData

\* the /signup route entered again: a new SignupForm with its initial state
RouteSignup ==
    /\ view = "/dashboard"
    /\ formData' = EmptyForm
    /\ errors' = NoErrors
    /\ view' = "/signup"
    /\ lastEvent' = [type |-> "mount", target |-> "form"]

Change == \E name \in Fields : \E value \in Inputs(name) :
              handleInputChange(name, value)

Next == Change \/ handleSubmit \/ RouteSignup

Spec == Init /\ [][Next]_vars

(***************************************************************************)
(* The validator and the criteria as pure functions: the form starts with  *)
(* any field values of a bounded set and is submitted.                     *)
(***************************************************************************)
MaxEmailLen == 4
MaxPwLen == 3
MaxNameLen == 2

StringsUpTo(alphabet, n) == UNION {[1..k -> alphabet] : k \in 0..n}

EmailAlphabet == {"a", "@", ".", " "}
PwAlphabet    == {"a", "A", "1", "!"}
NameAlphabet  == {"a", " "}

\* six lower-case letters, so that a padded password reaches MinLength
Pad == <<"b", "c", "d", "e", "f", "g">>

EmailStrings == StringsUpTo(EmailAlphabet, MaxEmailLen)
PwStrings ==
    LET short == StringsUpTo(PwAlphabet, MaxPwLen)
    IN  short \cup {Pad \o s : s \in short}
NameStrings == StringsUpTo(NameAlphabet, MaxNameLen)

InitEmail ==
    /\ \E e \in EmailStrings :
           formData = [email |-> e, username |-> sAlice,
                       password |-> sStrong1, confirmPassword |-> sStrong1]
    /\ errors = NoErrors
    /\ view = "/signup"
    /\ lastEvent = [type |-> "mount", target |-> "form"]

NextEmail == handleSubmit

EmailSpec == InitEmail /\ [][NextEmail]_vars

InitCrit ==
    /\ \E p \in PwStrings : \E u \in NameStrings \cup {p} :
           \E c \in {<<>>, p, sAlice} :
              formData = [email |-> sMail, username |-> u,
                          password |-> p, confirmPassword |-> c]
    /\ errors = NoErrors
    /\ view = "/signup"
    /\ lastEvent = [type |-> "mount", target |-> "form"]

NextCrit == handleSubmit

CritSpec == InitCrit /\ [][NextCrit]_vars

(***************************************************************************)
(* Properties.                                                             *)
(***************************************************************************)
\* the fields that show a message
Shown(e) == {f \in Fields : Truthy(e[f])}

\* blank after trimming: nothing but white space
AllWhitespace(s) == \A i \in 1..Len(s) : s[i] \in Whitespace

\* the five criteria, spelled out
AllFive(fd) ==
    LET pc == passwordCriteria(fd)
    IN  /\ pc.minLength
        /\ pc.hasUppercase
        /\ pc.hasSymbol
        /\ pc.hasDigit
        /\ pc.notSameAsUsername

\* C1: a submit navigates to the dashboard iff the validator, run on the
\* form data of that moment, yields no error for any of the four fields;
\* otherwise the view stays and the form data are unchanged; four empty
\* fields give an error on all four fields and no navigation.
C1_SubmitNavigatesIffValid ==
    [][lastEvent'.type = "submit" =>
          /\ view' = "/dashboard" <=>
                 \A f \in Fields : newErrors(formData)[f] = Absent
          /\ view' # "/dashboard" => view' = "/signup" /\ formData' = formData
          /\ formData = EmptyForm =>
                 view' = "/signup" /\ Shown(errors') = Fields]_vars

C1_Witness ==
    /\ lastEvent.type = "submit"
    /\ view = "/dashboard"
    /\ formData.email = sMail
    /\ formData.password = sStrong1

\* C2: after a submit, username carries "Username is required" exactly when
\* it is blank after trimming; password carries "Password is required" when
\* empty, else "Password does not meet all criteria" exactly when the overall
\* validity is false; confirmPassword carries "Please confirm your password"
\* when empty, else "Passwords do not match" exactly when it differs from
\* password; no other message appears on these fields.
C2_ValidatorMessages ==
    lastEvent.type = "submit" =>
        /\ errors.username =
              IF AllWhitespace(formData.username)
              THEN "Username is required" ELSE Absent
        /\ errors.password =
              IF Len(formData.password) = 0 THEN "Password is required"
              ELSE IF ~AllFive(formData)
                   THEN "Password does not meet all criteria"
                   ELSE Absent
        /\ errors.confirmPassword =
              IF Len(formData.confirmPassword) = 0
              THEN "Please confirm your password"
              ELSE IF formData.confirmPassword # formData.password
                   THEN "Passwords do not match"
                   ELSE Absent

C2_Witness ==
    /\ lastEvent.type = "submit"
    /\ Len(formData.username) > 0
    /\ errors.username = "Username is required"
    /\ errors.password = "Password does not meet all criteria"
    /\ errors.confirmPassword = "Passwords do not match"

\* C3: an edit of a field leaves the values and the errors of the three
\* other fields as they were, and clears the error of the edited field.
C3_EditFrame ==
    [][lastEvent'.type = "change" =>
          LET name == lastEvent'.target
          IN  /\ \A g \in Fields \ {name} :
                     formData'[g] = formData[g] /\ errors'[g] = errors[g]
              /\ ~Truthy(errors'[name])]_vars

C3_Witness ==
    /\ lastEvent = [type |-> "change", target |-> "password"]
    /\ errors.password = Undefined
    /\ Shown(errors) = Fields \ {"password"}

\* C4: a submit replaces the whole errors object by what the validator
\* computes from the current form data: no earlier entry survives unless
\* the validator yields it again, and a second submit with no edit in
\* between leaves the errors as they are.
C4_SubmitReplacesErrors ==
    [][lastEvent'.type = "submit" =>
          /\ errors' = newErrors(formData)
          /\ \A f \in Fields :
                 errors'[f] # Absent => errors'[f] = newErrors(formData)[f]
          /\ lastEvent.type = "submit" => errors' = errors]_vars

C4_Witness ==
    /\ lastEvent.type = "submit"
    /\ view = "/signup"
    /\ formData.password = sStrong1
    /\ formData.confirmPassword = sStrong1
    /\ errors.confirmPassword = Absent
    /\ errors.password = Absent
    /\ errors.email = "Email is invalid"

\* C5: on the signup view the submit button is disabled exactly when one of
\* the five criteria is false or password differs from confirmPassword; with
\* password equal to username it is disabled.
C5_DisabledExactly ==
    view = "/signup" =>
        /\ submitDisabled(formData) <=>
              \/ \E c \in Criteria : ~passwordCriteria(formData)[c]
              \/ formData.password # formData.confirmPassword
        /\ formData.password = formData.username => submitDisabled(formData)

C5_Witness ==
    /\ view = "/signup"
    /\ formData.password = sStrong1
    /\ formData.username = sStrong1
    /\ formData.confirmPassword = sStrong1
    /\ submitDisabled(formData)

\* an "@" that follows a non-white-space character, then one or more
\* non-white-space characters, then a "." that a non-white-space character
\* follows
EmailShape(s) ==
    \E i \in 2..Len(s) : \E j \in (i + 2)..(Len(s) - 1) :
        /\ s[i] = "@"
        /\ s[i - 1] \notin Whitespace
        /\ s[j] = "."
        /\ s[j + 1] \notin Whitespace
        /\ \A k \in (i + 1)..(j - 1) : s[k] \notin Whitespace

\* position i of s has a non-white-space character on both sides
Flanked(s, i) ==
    /\ 1 < i
    /\ i < Len(s)
    /\ s[i - 1] \notin Whitespace
    /\ s[i + 1] \notin Whitespace

\* exactly one "@" and exactly one ".", each with non-white space on both
\* sides
OneAtOneDot(s) ==
    /\ Cardinality({i \in 1..Len(s) : s[i] = "@"}) = 1
    /\ Cardinality({i \in 1..Len(s) : s[i] = "."}) = 1
    /\ \A i \in 1..Len(s) : s[i] \in {"@", "."} => Flanked(s, i)

C7_NotSameAsUsername ==
    LET pw == formData.password
        un == formData.username
    IN  /\ passwordCriteria(formData).notSameAsUsername <=>
              ~(Len(pw) = 0 \/ Len(un) = 0 \/ pw = un)
        /\ Len(un) = 0 => ~isPasswordValid(formData)
        /\ lastEvent.type = "submit" /\ Len(un) = 0 =>
              Truthy(errors.password) /\ view = "/signup"

C7_Witness ==
    /\ lastEvent.type = "submit"
    /\ formData.username = <<>>
    /\ formData.password = Pad \o <<"A", "1", "!">>
    /\ errors.password = "Password does not meet all criteria"

\* the criteria an edit flips
Flipped(before, after) ==
    {c \in Criteria : passwordCriteria(before)[c] # passwordCriteria(after)[c]}

\* C8 (as stated): an edit of password or of username flips at most one
\* criterion.
C8_AsStated ==
    [][lastEvent'.type = "change"
          /\ lastEvent'.target \in {"password", "username"} =>
              Cardinality(Flipped(formData, formData')) <= 1]_vars

\* C8 (amended): the overall validity is the conjunction of the five
\* criteria; an edit of username flips no criterion but notSameAsUsername,
\* and an edit of email or confirmPassword flips none.
C8_ValidityAndUsernameEdit ==
    /\ [](isPasswordValid(formData) <=> AllFive(formData))
    /\ [][lastEvent'.type = "change" =>
            /\ lastEvent'.target = "username" =>
                   Flipped(formData, formData') \subseteq {"notSameAsUsername"}
            /\ lastEvent'.target \in {"email", "confirmPassword"} =>
                   Flipped(formData, formData') = {}]_vars

C8_Witness ==
    /\ lastEvent = [type |-> "change", target |-> "username"]
    /\ formData.username = sStrong1
    /\ formData.password = sStrong1
    /\ \A c \in Criteria :
           passwordCriteria(formData)[c] <=> c # "notSameAsUsername"

\* C9: only a submit introduces errors: any other step leaves each shown
\* message as it was or removes it, so an edited field shows no error until
\* the next submit, also when its new value breaks its rule.
C9_OnlySubmitAddsErrors ==
    [][lastEvent'.type # "submit" =>
          /\ Shown(errors') \subseteq Shown(errors)
          /\ \A f \in Shown(errors') : errors'[f] = errors[f]
          /\ lastEvent'.type = "change" =>
                 ~Truthy(errors'[lastEvent'.target])]_vars

C9_Witness ==
    /\ lastEvent = [type |-> "change", target |-> "email"]
    /\ errors.email = Undefined
    /\ formData.email = sNoDot
    /\ newErrors(formData).email = "Email is invalid"

\* C10: on the signup view the button is disabled iff the validator would
\* put an error on password or on confirmPassword; a submit with the button
\* disabled does not navigate, and a submit with the button enabled is
\* rejected only with an error on email or on username.
C10_RedundantGuard ==
    /\ [](view = "/signup" =>
            (submitDisabled(formData) <=>
                \/ Truthy(newErrors(formData).password)
                \/ Truthy(newErrors(formData).confirmPassword)))
    /\ [][lastEvent'.type = "submit" =>
            /\ submitDisabled(formData) => view' = "/signup"
            /\ ~submitDisabled(formData) /\ view' = "/signup" =>
                   /\ Shown(errors') # {}
                   /\ Shown(errors') \subseteq {"email", "username"}]_vars

C10_Witness ==
    /\ lastEvent.type = "submit"
    /\ view = "/signup"
    /\ ~submitDisabled(formData)
    /\ errors.email = "Email is required"
    /\ errors.username = Absent

====
